---- MODULE Spec2Model ----
(***************************************************************************)
(* Model of the two source-patching scripts of the repository:             *)
(*   scripts/patch_klein_full_ft.py    (the "lora-to-full" patch set)      *)
(*   scripts/patch_disable_precache.py (the "disable-precache" patch set)  *)
(* of the two commands of scripts/train_flux2_full.py that run them, and   *)
(* of the event loop of scripts/inference.py.                              *)
(*                                                                         *)
(* A buffer (the Python string `code`) is a sequence of tokens.  A token   *)
(* is either one character ("\n", " ", "\t", "(", ")", ",") or one of the  *)
(* literals the scripts search for or insert, kept as its full text.  No   *)
(* multi-character token starts or ends with white space or contains a     *)
(* line break, so line structure and indentation are decided by the        *)
(* one-character tokens alone.  Positions are Python's: 0-based, and       *)
(* s[a:b] is Slice(s, a, b).                                               *)
(***************************************************************************)
EXTENDS Integers, Sequences, FiniteSets, TLC

VARIABLES
    script,   \* which script runs: "klein" (patch_klein_full_ft.py) or "precache"
    run,      \* 1 for the first run of the script, 2 for a second run on its output
    pc,       \* the statement the interpreter is at
    src,      \* the file at sys.argv[1]
    dst,      \* the file at sys.argv[2] (klein)
    code,     \* the buffer
    report,   \* the lines printed so far
    last,     \* the patch that ran last
    prev,     \* the buffer that patch was given
    span,     \* what that patch found and spliced
    found,    \* for each patch run so far, whether it took its rewriting branch
    out1,     \* the file the first run wrote
    loc,      \* the variables of the loop the interpreter is in
    resp,     \* inference.py: the lines of the streamed response
    nread,    \* inference.py: how many of them the for loop has taken
    result_image,  \* inference.py: the variable of that name
    output    \* inference.py: the file at args.output

vars == <<script, run, pc, src, dst, code, report, last, prev, span, found, out1, loc,
          resp, nread, result_image, output>>

\* the variables of the inference client
client == <<resp, nread, result_image, output>>

(***************************************************************************)
(* Bounds of the model.                                                    *)
(***************************************************************************)
\* longest input, in pieces, of the short-anchor families
MaxLen == 4
\* longest input, in pieces, of the runs that take the loops turn by turn
MaxLoop == 3
\* longest input, in pieces, of the inputs of the parenthesis scan
MaxNest == 6
\* most lines of an input of the line filter
MaxLines == 5
\* longest input, in pieces, of the runs that write their file piece by piece
MaxWrite == 3
\* longest streamed response, in lines, of the inference client
MaxEvents == 3

(***************************************************************************)
(* One-character tokens.                                                   *)
(***************************************************************************)
NL == "\n"
SP == " "
TAB == "\t"
LP == "("
RP == ")"
COMMA == ","
\* a stretch of text none of the patches looks for
other_text == "x = 1"

(***************************************************************************)
(* Literals of patch_klein_full_ft.py.                                     *)
(***************************************************************************)
requires_grad_False == "transformer.requires_grad_(False)"
requires_grad_True == "transformer.requires_grad_(True)"
lora_config_anchor == "transformer_lora_config = LoraConfig("
add_adapter_anchor == "transformer.add_adapter(transformer_lora_config)"
full_ft_comment == "# Full fine-tuning: all transformer params are trainable (no LoRA)"
old_save_hook_signature == "def save_model_hook(models, weights, output_dir):"
load_hook_prefix == "def load_model_hook("
old_load_hook_signature == "def load_model_hook(models, input_dir):"
register_line == "accelerator.register_save_state_pre_hook(save_model_hook)"
save_lora_anchor == "Flux2KleinPipeline.save_lora_weights("
main_process_anchor == "if accelerator.is_main_process:"
upcast_token == "upcast_before_saving"
add_argument_token == "add_argument"
\* tokens of the argument declaration that patch 6 is written for
parser_add_argument == "parser.add_argument("
upcast_flag == "\"--upcast_before_saving\""
store_true == "action=\"store_true\""
next_line_kept == "next_line_kept = True"

(***************************************************************************)
(* Literals of patch_disable_precache.py.                                  *)
(***************************************************************************)
old == "precompute_latents = args.cache_latents or train_dataset.custom_instance_prompts"
new == "precompute_latents = False  # patched: compute on-the-fly to avoid OOM"
old_cleanup == "text_encoding_pipeline = text_encoding_pipeline.to(\"cpu\")"
old_del == "del text_encoder, tokenizer"
cleanup_comment == "# patched: keep text_encoding_pipeline for on-the-fly computation"
del_comment == "# patched: keep text_encoder and tokenizer for on-the-fly computation"
hash_mark == "#"
cache_if == "if train_dataset.custom_instance_prompts:"
cache_embeds == "prompt_embeds = prompt_embeds_cache[step]"
cache_ids == "text_ids = text_ids_cache[step]"
no_grad_line == "with torch.no_grad():"
offload_line == "with offload_models(text_encoding_pipeline, device=accelerator.device, offload=args.offload):"
compute_line == "prompt_embeds, text_ids = compute_text_embeddings(batch[\"prompts\"], text_encoding_pipeline)"

(***************************************************************************)
(* What the characters of a token are, as far as the scripts look.         *)
(***************************************************************************)
\* <<token, literal>>: the literal is a proper substring of the token
Contains ==
    { <<old_load_hook_signature, load_hook_prefix>>,
      <<parser_add_argument, add_argument_token>>,
      <<upcast_flag, upcast_token>> }

\* Python's `lit in tok` for one token
Has(tok, lit) == tok = lit \/ <<tok, lit>> \in Contains

\* tokens whose parentheses are one unclosed "("
Opens ==
    { LP, lora_config_anchor, load_hook_prefix, save_lora_anchor,
      parser_add_argument, "pipeline = Flux2KleinPipeline.from_pretrained(" }

\* tokens whose last character is ")"
EndsParen ==
    { RP, requires_grad_False, requires_grad_True, add_adapter_anchor,
      full_ft_comment, register_line, old_cleanup, compute_line,
      "unwrapped = accelerator.unwrap_model(model)",
      "unwrapped.save_pretrained(os.path.join(output_dir, \"transformer\"))",
      "weights.pop()", "model = models.pop()",
      "transformer_to_save = accelerator.unwrap_model(transformer)",
      "transformer_to_save = transformer_to_save.to(weight_dtype)",
      "pipeline.save_pretrained(args.output_dir)" }

\* tokens whose last character is ","
EndsComma ==
    { COMMA, "args.pretrained_model_name_or_path,",
      "transformer=transformer_to_save,", "torch_dtype=weight_dtype," }

\* Python's `ch in " \t"`
IsIndentChar(tok) == tok \in {SP, TAB}

\* what the regular expression's \s matches
IsSpace(tok) == tok \in {SP, TAB, NL}

(***************************************************************************)
(* Python string operations on token sequences.                            *)
(***************************************************************************)
Min(S) == CHOOSE x \in S : \A y \in S : x <= y

Max(S) == CHOOSE x \in S : \A y \in S : x >= y

\* s[a:b]
Slice(s, a, b) == SubSeq(s, a + 1, IF b > Len(s) THEN Len(s) ELSE b)

\* s[a:]
From(s, a) == SubSeq(s, a + 1, Len(s))

\* s[:b]
Upto(s, b) == Slice(s, 0, b)

\* pat occurs in s at position i
MatchAt(s, pat, i) ==
    /\ i >= 0
    /\ i + Len(pat) <= Len(s)
    /\ \A k \in 1..Len(pat) : Has(s[i + k], pat[k])

\* s.find(pat, start): the lowest position at or after start, or -1
Find(s, pat, start) ==
    LET hits == { i \in start..Len(s) : MatchAt(s, pat, i) }
    IN  IF hits = {} THEN -1 ELSE Min(hits)

\* s.rfind(pat, 0, end): the highest position of a match lying within s[0:end], or -1
RFind(s, pat, end) ==
    LET hits == { i \in 0..(end - Len(pat)) : MatchAt(s, pat, i) }
    IN  IF hits = {} THEN -1 ELSE Max(hits)

\* pat in s
In(pat, s) == Find(s, pat, 0) >= 0

\* n spaces
RECURSIVE Spaces(_)
Spaces(n) == IF n = 0 THEN <<>> ELSE <<SP>> \o Spaces(n - 1)

\* the for-loop that collects the leading spaces and tabs of s
RECURSIVE SniffIndent(_)
SniffIndent(s) ==
    IF s # <<>> /\ IsIndentChar(Head(s))
    THEN <<Head(s)>> \o SniffIndent(Tail(s))
    ELSE <<>>

\* s.replace(lit, repl, 1): what a replace of the first occurrence alone would leave
RECURSIVE ReplaceFirstOnly(_, _, _)
ReplaceFirstOnly(s, lit, repl) ==
    IF s = <<>> THEN <<>>
    ELSE IF Head(s) = lit THEN repl \o Tail(s)
    ELSE <<Head(s)>> \o ReplaceFirstOnly(Tail(s), lit, repl)

\* s.replace(lit, repl) for a one-token literal: every occurrence, left to right
RECURSIVE Replace(_, _, _)
Replace(s, lit, repl) ==
    IF s = <<>> THEN <<>>
    ELSE IF Head(s) = lit THEN repl \o Replace(Tail(s), lit, repl)
    ELSE <<Head(s)>> \o Replace(Tail(s), lit, repl)

\* s.split("\n"): the lines of s, one more than its line breaks
Split(s) ==
    LET rest[a \in 0..Len(s)] ==
            LET i == Find(s, <<NL>>, a)
            IN  IF i < 0 THEN <<From(s, a)>> ELSE <<Slice(s, a, i)>> \o rest[i + 1]
    IN  rest[0]

\* a join that ends every line, the last one too, with a line break
RECURSIVE JoinTrailing(_)
JoinTrailing(lines) ==
    IF lines = <<>> THEN <<>>
    ELSE Head(lines) \o <<NL>> \o JoinTrailing(Tail(lines))

\* "\n".join(lines)
RECURSIVE Join(_)
Join(lines) ==
    IF lines = <<>> THEN <<>>
    ELSE IF Len(lines) = 1 THEN Head(lines)
    ELSE Head(lines) \o <<NL>> \o Join(Tail(lines))

\* line.strip()
RECURSIVE Strip(_)
Strip(line) ==
    IF line = <<>> THEN <<>>
    ELSE IF IsSpace(Head(line)) THEN Strip(Tail(line))
    ELSE IF IsSpace(line[Len(line)]) THEN Strip(SubSeq(line, 1, Len(line) - 1))
    ELSE line

\* line.strip().endswith(",")
EndsWithComma(line) == Strip(line) # <<>> /\ Strip(line)[Len(Strip(line))] \in EndsComma

\* line.strip().endswith(")")
EndsWithParen(line) == Strip(line) # <<>> /\ Strip(line)[Len(Strip(line))] \in EndsParen

\* lit in line
InLine(lit, line) == \E k \in 1..Len(line) : Has(line[k], lit)

\* indent + n spaces + one token + "\n": one line of an f-string block
TextLine(indent, n, tok) == indent \o Spaces(n) \o <<tok, NL>>

(***************************************************************************)
(* The outcome of one patch on one buffer: the new buffer, whether a       *)
(* ValueError left the patch (str.index found nothing), whether the patch  *)
(* took its rewriting branch, and the slice bounds and replacement text    *)
(* it spliced with.                                                        *)
(***************************************************************************)
Skip(c) ==
    [code |-> c, raised |-> FALSE, found |-> FALSE,
     start |-> -1, end |-> -1, repl |-> <<>>, close |-> -1]

Raise(c) ==
    [code |-> c, raised |-> TRUE, found |-> TRUE,
     start |-> -1, end |-> -1, repl |-> <<>>, close |-> -1]

\* code[:s] + r + code[e:]
Splice(c, s, e, r) ==
    [code |-> Upto(c, s) \o r \o From(c, e), raised |-> FALSE, found |-> TRUE,
     start |-> s, end |-> e, repl |-> r, close |-> -1]

\* code.replace(lit, r), reported with the first occurrence as its span
ReplaceAll(c, lit, r) ==
    LET i == Find(c, <<lit>>, 0)
    IN  [code |-> Replace(c, lit, r), raised |-> FALSE, found |-> i >= 0,
         start |-> i, end |-> IF i >= 0 THEN i + 1 ELSE -1,
         repl |-> IF i >= 0 THEN r ELSE <<>>, close |-> -1]

(***************************************************************************)
(* patch_klein_full_ft.py: the replacement texts.                          *)
(***************************************************************************)
new_save_hook(indent) ==
    LET body_indent == indent \o Spaces(4)
    IN  TextLine(indent, 0, old_save_hook_signature)
        \o TextLine(body_indent, 0, main_process_anchor)
        \o TextLine(body_indent, 4, "for model in models:")
        \o TextLine(body_indent, 8, "unwrapped = accelerator.unwrap_model(model)")
        \o TextLine(body_indent, 8,
             "if isinstance(unwrapped, type(accelerator.unwrap_model(transformer))):")
        \o TextLine(body_indent, 12,
             "unwrapped.save_pretrained(os.path.join(output_dir, \"transformer\"))")
        \o TextLine(body_indent, 4, "if weights:")
        \o TextLine(body_indent, 8, "weights.pop()")
        \o <<NL>>

new_load_hook(indent) ==
    LET body_indent == indent \o Spaces(4)
    IN  TextLine(indent, 0, old_load_hook_signature)
        \o TextLine(body_indent, 0, "while len(models) > 0:")
        \o TextLine(body_indent, 4, "model = models.pop()")
        \o TextLine(body_indent, 4,
             "if isinstance(accelerator.unwrap_model(model), type(accelerator.unwrap_model(transformer))):")
        \o TextLine(body_indent, 8, "# Load full transformer weights")
        \o TextLine(body_indent, 8, "pass  # Accelerator handles loading")
        \o <<NL>>

new_final_save(indent) ==
    LET body_indent == indent \o Spaces(4)
    IN  TextLine(indent, 0, main_process_anchor)
        \o TextLine(body_indent, 0, "transformer_to_save = accelerator.unwrap_model(transformer)")
        \o TextLine(body_indent, 0, "transformer_to_save = transformer_to_save.to(weight_dtype)")
        \o TextLine(body_indent, 0, "pipeline = Flux2KleinPipeline.from_pretrained(")
        \o TextLine(body_indent, 4, "args.pretrained_model_name_or_path,")
        \o TextLine(body_indent, 4, "transformer=transformer_to_save,")
        \o TextLine(body_indent, 4, "torch_dtype=weight_dtype,")
        \o TextLine(body_indent, 0, RP)
        \o TextLine(body_indent, 0, "pipeline.save_pretrained(args.output_dir)")

(***************************************************************************)
(* patch_klein_full_ft.py: the six patches, each as buffer -> outcome.     *)
(***************************************************************************)
\* 1. code.replace("transformer.requires_grad_(False)", "...(True)")
Patch1(c) == ReplaceAll(c, requires_grad_False, <<requires_grad_True>>)

\* 2. Remove LoRA config and adapter setup: the statements before the
\* indentation loop
Locate2(c) ==
    LET start == Find(c, <<lora_config_anchor>>, 0)
        adapter == Find(c, <<add_adapter_anchor>>, 0)
        adapter_line_end == Find(c, <<NL>>, adapter)
    IN  [skip |-> ~In(<<lora_config_anchor>>, c),
         raised |-> adapter < 0 \/ adapter_line_end < 0,
         line_start |-> RFind(c, <<NL>>, start) + 1]

\* the splice after the loop has left `indent`
Splice2(c, indent) ==
    LET start == Find(c, <<lora_config_anchor>>, 0)
        adapter == Find(c, <<add_adapter_anchor>>, 0)
        adapter_line_end == Find(c, <<NL>>, adapter)
        line_start == RFind(c, <<NL>>, start) + 1
    IN  Splice(c, line_start, adapter_line_end + 1,
               indent \o <<full_ft_comment, NL>>)

Patch2(c) ==
    LET at == Locate2(c)
    IN  IF at.skip THEN Skip(c)
        ELSE IF at.raised THEN Raise(c)
        ELSE Splice2(c, SniffIndent(From(c, at.line_start)))

\* 3. Replace save_model_hook with full model save
Locate3(c) ==
    LET func_start == Find(c, <<old_save_hook_signature>>, 0)
        load_hook_start == Find(c, <<load_hook_prefix>>, func_start + 1)
    IN  [skip |-> ~In(<<old_save_hook_signature>>, c),
         raised |-> load_hook_start < 0,
         line_start |-> RFind(c, <<NL>>, func_start) + 1]

Splice3(c, indent) ==
    LET func_start == Find(c, <<old_save_hook_signature>>, 0)
        load_hook_start == Find(c, <<load_hook_prefix>>, func_start + 1)
        load_hook_line_start == RFind(c, <<NL>>, load_hook_start) + 1
        save_line_start == RFind(c, <<NL>>, func_start) + 1
    IN  Splice(c, save_line_start, load_hook_line_start, new_save_hook(indent))

Patch3(c) ==
    LET at == Locate3(c)
    IN  IF at.skip THEN Skip(c)
        ELSE IF at.raised THEN Raise(c)
        ELSE Splice3(c, SniffIndent(From(c, at.line_start)))

\* 4. Replace load_model_hook with full model load; the position that
\* code.index returns for the end anchor, -1 when it raises
EndAnchor4(c) ==
    LET func_start == Find(c, <<old_load_hook_signature>>, 0)
    IN  IF In(<<register_line>>, c)
        THEN Find(c, <<register_line>>, func_start)
        \* len(old_load_hook_signature) is one token
        ELSE Find(c, <<NL, NL, SP, SP, SP, SP>>, func_start + 1)

Locate4(c) ==
    LET func_start == Find(c, <<old_load_hook_signature>>, 0)
    IN  [skip |-> ~In(<<old_load_hook_signature>>, c),
         raised |-> EndAnchor4(c) < 0,
         line_start |-> RFind(c, <<NL>>, func_start) + 1]

Splice4(c, indent) ==
    LET func_start == Find(c, <<old_load_hook_signature>>, 0)
        end_idx == IF In(<<register_line>>, c) THEN EndAnchor4(c)
                   ELSE EndAnchor4(c) + 1
        load_line_start == RFind(c, <<NL>>, func_start) + 1
        end_line_start == RFind(c, <<NL>>, end_idx) + 1
    IN  Splice(c, load_line_start, end_line_start, new_load_hook(indent))

Patch4(c) ==
    LET at == Locate4(c)
    IN  IF at.skip THEN Skip(c)
        ELSE IF at.raised THEN Raise(c)
        ELSE Splice4(c, SniffIndent(From(c, at.line_start)))

\* the body of the while loop as it would be without `idx += 1` after a
\* character that is no parenthesis
ScanBodyStuck(c, idx, paren_count) ==
    IF c[idx + 1] \in Opens
    THEN [idx |-> idx + 1, paren_count |-> paren_count + 1, stop |-> FALSE]
    ELSE IF c[idx + 1] = RP
         THEN IF paren_count - 1 = 0
              THEN [idx |-> idx, paren_count |-> paren_count - 1, stop |-> TRUE]
              ELSE [idx |-> idx + 1, paren_count |-> paren_count - 1, stop |-> FALSE]
    ELSE [idx |-> idx, paren_count |-> paren_count, stop |-> FALSE]

\* one pass through the body of the while loop of patch 5, entered with
\* idx < len(code): the values it leaves, and whether it left by `break`
ScanBody(c, idx, paren_count) ==
    IF c[idx + 1] \in Opens
    THEN [idx |-> idx + 1, paren_count |-> paren_count + 1, stop |-> FALSE]
    ELSE IF c[idx + 1] = RP
         THEN IF paren_count - 1 = 0
              THEN [idx |-> idx, paren_count |-> paren_count - 1, stop |-> TRUE]
              ELSE [idx |-> idx + 1, paren_count |-> paren_count - 1, stop |-> FALSE]
    ELSE [idx |-> idx + 1, paren_count |-> paren_count, stop |-> FALSE]

\* a scan that keeps no count and stops at the first ")"
RECURSIVE ScanFirstClose(_, _, _)
ScanFirstClose(c, idx, paren_count) ==
    IF idx >= Len(c) THEN idx
    ELSE IF c[idx + 1] = RP THEN idx
    ELSE ScanFirstClose(c, idx + 1, paren_count)

\* the while loop of patch 5: the position it leaves in idx
RECURSIVE ParenScan(_, _, _)
ParenScan(c, idx, paren_count) ==
    LET b == ScanBody(c, idx, paren_count)
    IN  IF idx >= Len(c) THEN idx
        ELSE IF b.stop THEN b.idx
        ELSE ParenScan(c, b.idx, b.paren_count)

\* 5. Replace final save logic
Locate5(c) ==
    LET last_save_lora == RFind(c, <<save_lora_anchor>>, Len(c))
        main_process_check == RFind(c, <<main_process_anchor>>, last_save_lora)
    IN  [skip |-> ~(last_save_lora > 0) \/ ~(main_process_check > 0),
         raised |-> FALSE,
         line_start |-> RFind(c, <<NL>>, main_process_check) + 1,
         last_save_lora |-> last_save_lora]

\* the statements after the while loop has left `idx`
Splice5(c, indent, idx) ==
    LET last_save_lora == RFind(c, <<save_lora_anchor>>, Len(c))
        main_process_check == RFind(c, <<main_process_anchor>>, last_save_lora)
        block_line_start == RFind(c, <<NL>>, main_process_check) + 1
        newline == Find(c, <<NL>>, idx)
    IN  IF newline < 0 THEN [Raise(c) EXCEPT !.close = idx]
        ELSE [Splice(c, block_line_start, newline + 1, new_final_save(indent))
                EXCEPT !.close = idx]

Patch5(c) ==
    LET at == Locate5(c)
    IN  IF at.skip THEN Skip(c)
        ELSE Splice5(c, SniffIndent(From(c, at.line_start)),
                     ParenScan(c, at.last_save_lora, 0))

\* one pass through the body of the for loop of patch 6: whether the line
\* is appended to filtered_lines, and the flag it leaves; the branch on
\* "_collate_lora_metadata" assigns False to a flag that is False there
FilterBody(line, skip_continuation) ==
    IF skip_continuation
    THEN [keep |-> FALSE,
          skip_continuation |->
              (EndsWithComma(line) \/ EndsWithParen(line)) /\ EndsWithComma(line)]
    ELSE IF InLine(upcast_token, line) /\ InLine(add_argument_token, line)
         THEN [keep |-> FALSE, skip_continuation |-> TRUE]
    ELSE [keep |-> TRUE, skip_continuation |-> FALSE]

\* the for loop of patch 6 over the lines still to read
RECURSIVE FilterLines(_, _)
FilterLines(lines, skip_continuation) ==
    LET b == FilterBody(Head(lines), skip_continuation)
    IN  IF lines = <<>> THEN <<>>
        ELSE (IF b.keep THEN <<Head(lines)>> ELSE <<>>)
             \o FilterLines(Tail(lines), b.skip_continuation)

\* line k of the buffer starts the deletion
StartsDeletion(line) ==
    InLine(upcast_token, line) /\ InLine(add_argument_token, line)

\* the statements after the for loop has left `filtered_lines`
Join6(c, filtered_lines) ==
    [code |-> Join(filtered_lines), raised |-> FALSE,
     found |-> \E lines \in {Split(c)} :
                   \E k \in 1..Len(lines) : StartsDeletion(lines[k]),
     start |-> -1, end |-> -1, repl |-> <<>>, close |-> -1]

\* 6. Remove upcast_before_saving arg definition if present
Patch6(c) == Join6(c, FilterLines(Split(c), FALSE))

(***************************************************************************)
(* patch_disable_precache.py: the replacement texts and the four patches.  *)
(***************************************************************************)
new_cleanup == <<cleanup_comment, NL>> \o Spaces(4) \o <<hash_mark, SP, old_cleanup>>

new_del == <<del_comment, NL>> \o Spaces(4) \o <<hash_mark, SP, old_del>>

\* the position after the white space that starts at i, or -1 when s[i] is
\* no white space: what \s+ consumes
SkipSpace(s, i) ==
    LET skip[n \in 0..Len(s)] ==
            IF n < Len(s) /\ IsSpace(s[n + 1]) THEN skip[n + 1] ELSE n
    IN  skip[i]

\* the end of the match of `pattern` that starts at i, or -1
MatchEnd(s, i) ==
    LET j == SkipSpace(s, i + 1)
        k == SkipSpace(s, j + 1)
    IN  IF /\ i < Len(s) /\ s[i + 1] = cache_if
           /\ j > i + 1 /\ j < Len(s) /\ s[j + 1] = cache_embeds
           /\ k > j + 1 /\ k < Len(s) /\ s[k + 1] = cache_ids
        THEN k + 1
        ELSE -1

\* re.search(pattern, code): the start of the leftmost match, or -1
Search(s) ==
    LET hits == { i \in 0..Len(s) : MatchEnd(s, i) >= 0 }
    IN  IF hits = {} THEN -1 ELSE Min(hits)

replacement(indent) ==
    <<cache_if, NL>>
    \o TextLine(indent, 4, no_grad_line)
    \o TextLine(indent, 8, offload_line)
    \o indent \o Spaces(12) \o <<compute_line>>

\* 1. Force precompute_latents = False
Precache1(c) == ReplaceAll(c, old, <<new>>)

\* 2. Keep text_encoding_pipeline on GPU
Precache2(c) == ReplaceAll(c, old_cleanup, new_cleanup)

\* 2b. Also prevent deletion of text_encoder and tokenizer
Precache2b(c) == ReplaceAll(c, old_del, new_del)

\* 3. Replace cache lookups with on-the-fly computation
LocateQ3(c) ==
    [skip |-> Search(c) < 0,
     raised |-> FALSE,
     line_start |-> RFind(c, <<NL>>, Search(c)) + 1]

SpliceQ3(c, indent) ==
    Splice(c, Search(c), MatchEnd(c, Search(c)), replacement(indent))

Precache3(c) ==
    LET at == LocateQ3(c)
    IN  IF at.skip THEN Skip(c)
        ELSE SpliceQ3(c, SniffIndent(From(c, at.line_start)))

(***************************************************************************)
(* What the scripts print.                                                 *)
(***************************************************************************)
KleinMessage ==
    [p1 |-> "  [1] Set transformer.requires_grad_(True)",
     p2 |-> "  [2] Removed LoRA config and add_adapter",
     p3 |-> "  [3] Replaced save_model_hook for full model save",
     p4 |-> "  [4] Replaced load_model_hook for full model load",
     p5 |-> "  [5] Replaced final save logic for full pipeline save",
     p6 |-> "  [6] Cleaned up LoRA-specific references"]

PrecacheApplied ==
    [q1 |-> "  [precache-1] Disabled latent pre-caching loop",
     q2 |-> "  [precache-2] Kept text_encoding_pipeline on GPU (skipped CPU move)",
     q2b |-> "  [precache-2b] Kept text_encoder and tokenizer (skipped deletion)",
     q3 |-> "  [precache-3] Replaced prompt_embeds_cache access with on-the-fly computation (with offload_models)"]

PrecacheWarning ==
    [q1 |-> "  [precache-1] WARNING: could not find precompute_latents assignment",
     q2 |-> "  [precache-2] WARNING: could not find text_encoding_pipeline.to('cpu')",
     q2b |-> "  [precache-2b] WARNING: could not find del text_encoder, tokenizer",
     q3 |-> "  [precache-3] WARNING: could not find prompt_embeds_cache access pattern"]

DoneMessage == "Done: src -> dst"

\* the patches of each script, in the order of the source
KleinOrder == <<"p1", "p2", "p3", "p4", "p5", "p6">>

PrecacheOrder == <<"q1", "q2", "q2b", "q3">>

Order(s) == IF s = "klein" THEN KleinOrder ELSE PrecacheOrder

\* a variant that passes over the block that follows: the statement two
\* places after patch p
AfterSkipping(p) ==
    LET o == IF p \in DOMAIN KleinMessage THEN KleinOrder ELSE PrecacheOrder
        i == CHOOSE k \in 1..Len(o) : o[k] = p
    IN  IF i + 1 >= Len(o) THEN "write" ELSE o[i + 2]

\* the statement that follows patch p
After(p) ==
    LET o == IF p \in DOMAIN KleinMessage THEN KleinOrder ELSE PrecacheOrder
        i == CHOOSE k \in 1..Len(o) : o[k] = p
    IN  IF i = Len(o) THEN "write" ELSE o[i + 1]

KleinPatch(p, c) ==
    CASE p = "p1" -> Patch1(c)
      [] p = "p2" -> Patch2(c)
      [] p = "p3" -> Patch3(c)
      [] p = "p4" -> Patch4(c)
      [] p = "p5" -> Patch5(c)
      [] p = "p6" -> Patch6(c)

PrecachePatch(p, c) ==
    CASE p = "q1" -> Precache1(c)
      [] p = "q2" -> Precache2(c)
      [] p = "q2b" -> Precache2b(c)
      [] p = "q3" -> Precache3(c)

\* no file at the path
NoFile == <<"<no file>">>

\* what a patch leaves behind for the properties: its outcome without the buffer
SpanOf(r) == [raised |-> r.raised, found |-> r.found, start |-> r.start,
              end |-> r.end, repl |-> r.repl, close |-> r.close]

NoSpan == SpanOf(Skip(<<>>))

\* inference.py: None, and the absence of a file; a bytes object is a sequence
\* of numbers 0..255, so neither is one
None == <<-1>>

NoOutput == <<-2>>

\* the patch scripts leave the inference client alone
ClientIdle == resp = <<>> /\ nread = 0 /\ result_image = None /\ output = NoOutput

\* the loop variables before any loop has run
NoLocals ==
    [patch |-> "", indent |-> <<>>, pos |-> 0, idx |-> 0, paren_count |-> 0,
     lines |-> <<>>, filtered_lines |-> <<>>, skip_continuation |-> FALSE]

(***************************************************************************)
(* The input files.  An input is a concatenation of pieces drawn from one  *)
(* family; a family holds the anchors of one or two patches and the        *)
(* characters those patches look at.                                       *)
(***************************************************************************)
BSeq(S, n) == UNION { [1..k -> S] : k \in 0..n }

RECURSIVE Flatten(_)
Flatten(ps) == IF ps = <<>> THEN <<>> ELSE Head(ps) \o Flatten(Tail(ps))

\* the characters the parenthesis scan of patch 5 looks at
ScanFamily ==
    { <<NL, main_process_anchor>>, <<save_lora_anchor>>, <<LP>>, <<RP>>, <<NL>> }

\* the lines the line filter of patch 6 tells apart
FilterFamily ==
    { <<parser_add_argument>>,
      Spaces(4) \o <<upcast_flag, COMMA>>,
      Spaces(4) \o <<store_true, COMMA>>,
      <<RP>>,
      <<next_line_kept>>,
      <<parser_add_argument, upcast_flag, COMMA, SP, store_true, RP>> }

KleinFamilies ==
    { { <<requires_grad_False>>, <<NL>>, <<other_text>> },
      { <<lora_config_anchor>>, <<add_adapter_anchor>>, <<NL>>, <<TAB>>,
        <<other_text, NL>> },
      { <<old_save_hook_signature>>, <<old_load_hook_signature>>, <<register_line>>,
        <<NL>>, Spaces(4) },
      { <<main_process_anchor>>, <<save_lora_anchor>>, <<LP>>, <<RP, NL>>, <<NL>> },
      { <<parser_add_argument>>, <<upcast_flag>>, <<RP>>, <<NL>>, <<other_text>> } }

\* the final save block, indented, with a call that may hold nested calls
LoopFamily ==
    { <<NL, TAB, main_process_anchor>>, <<save_lora_anchor>>, <<LP>>, <<RP, NL>>,
      <<other_text>> }

PrecacheFamilies ==
    { { <<old>>, <<old_cleanup>>, <<old_del>>, <<NL>>, <<TAB>>, Spaces(4) },
      { <<cache_if, NL, SP, cache_embeds, NL, SP, cache_ids>>,
        <<cache_embeds, NL, cache_ids>>, <<cache_if>>, <<NL>>, <<TAB>> } }

Inputs(families, n) ==
    UNION { { Flatten(ps) : ps \in BSeq(f, n) } : f \in families }

\* the state before the interpreter runs the script on file `input`
Start(s, input) ==
    /\ script = s
    /\ run = 1
    /\ pc = "read"
    /\ src = input
    /\ dst = NoFile
    /\ code = <<>>
    /\ report = <<>>
    /\ last = ""
    /\ prev = <<>>
    /\ span = NoSpan
    /\ found = <<>>
    /\ out1 = NoFile
    /\ loc = NoLocals
    /\ ClientIdle

\* the state in which the klein script reaches patch p with buffer `input`,
\* for inputs that the patches before p leave as they are
StartAt(p, input) ==
    /\ script = "klein"
    /\ run = 1
    /\ pc = p
    /\ src = input
    /\ dst = NoFile
    /\ code = input
    /\ report = <<>>
    /\ last = ""
    /\ prev = <<>>
    /\ span = NoSpan
    /\ found = <<>>
    /\ out1 = NoFile
    /\ loc = NoLocals
    /\ ClientIdle

Init ==
    \/ \E input \in Inputs(KleinFamilies, MaxLen) : Start("klein", input)
    \/ \E input \in Inputs(PrecacheFamilies, MaxLen) : Start("precache", input)

(***************************************************************************)
(* The statements of the scripts.                                          *)
(***************************************************************************)
\* with open(src, "r") as f: code = f.read()
Read ==
    /\ pc = "read"
    /\ code' = src
    /\ pc' = Order(script)[1]
    /\ UNCHANGED <<script, run, src, dst, report, last, prev, span, found, out1, loc, client>>

\* the lines printed once patch p has ended with outcome r
Printed(p, r) ==
    IF p \in DOMAIN KleinMessage
    THEN IF p \in {"p1", "p6"} \/ r.found THEN Append(report, KleinMessage[p])
         ELSE report
    ELSE Append(report, IF r.found THEN PrecacheApplied[p] ELSE PrecacheWarning[p])

\* patch p ends with outcome r: the buffer is assigned and the line printed,
\* or the ValueError ends the run
Commit(p, outcome) ==
  \E r \in {outcome} :
    /\ prev' = code
    /\ last' = p
    /\ span' = SpanOf(r)
    /\ found' = Append(found, r.found)
    /\ IF r.raised
       THEN pc' = "crashed" /\ code' = code /\ report' = report
       ELSE pc' = After(p) /\ code' = r.code /\ report' = Printed(p, r)
    /\ UNCHANGED <<script, run, src, dst, out1, client>>

\* one numbered block of patch_klein_full_ft.py, with its print
KleinStep(p) ==
    /\ script = "klein"
    /\ pc = p
    /\ Commit(p, KleinPatch(p, code))
    /\ UNCHANGED loc

KleinPatch1 == KleinStep("p1")

KleinPatch2 == KleinStep("p2")

KleinPatch3 == KleinStep("p3")

KleinPatch4 == KleinStep("p4")

KleinPatch5 == KleinStep("p5")

KleinPatch6 == KleinStep("p6")

\* one numbered block of patch_disable_precache.py, with its print
PrecacheStep(p) ==
    /\ script = "precache"
    /\ pc = p
    /\ Commit(p, PrecachePatch(p, code))
    /\ UNCHANGED loc

PrecachePatch1 == PrecacheStep("q1")

PrecachePatch2 == PrecacheStep("q2")

PrecachePatch2b == PrecacheStep("q2b")

PrecachePatch3 == PrecacheStep("q3")

\* patch_klein_full_ft.py: write dst, print the last line
WriteDst ==
    /\ script = "klein"
    /\ pc = "write"
    /\ dst' = code
    /\ report' = Append(report, DoneMessage)
    /\ pc' = "done"
    /\ UNCHANGED <<script, run, src, code, last, prev, span, found, out1, loc, client>>

\* patch_disable_precache.py: write the file it read
WritePath ==
    /\ script = "precache"
    /\ pc = "write"
    /\ src' = code
    /\ pc' = "done"
    /\ UNCHANGED <<script, run, dst, code, report, last, prev, span, found, out1, loc, client>>

\* the file a finished run has written
Written == IF script = "klein" THEN dst ELSE src

\* the same script is started once more, on the file the first run wrote
Rerun ==
    /\ pc = "done"
    /\ run = 1
    /\ run' = 2
    /\ pc' = "read"
    /\ out1' = Written
    /\ src' = Written
    /\ dst' = NoFile
    /\ code' = <<>>
    /\ report' = <<>>
    /\ last' = ""
    /\ prev' = <<>>
    /\ span' = NoSpan
    /\ found' = <<>>
    /\ UNCHANGED <<script, loc, client>>

Next ==
    \/ Read
    \/ KleinPatch1
    \/ KleinPatch2
    \/ KleinPatch3
    \/ KleinPatch4
    \/ KleinPatch5
    \/ KleinPatch6
    \/ PrecachePatch1
    \/ PrecachePatch2
    \/ PrecachePatch2b
    \/ PrecachePatch3
    \/ WriteDst
    \/ WritePath
    \/ Rerun

Spec == Init /\ [][Next]_vars

(***************************************************************************)
(* The same scripts with their loops taken one turn at a time: the for     *)
(* loop that collects the indentation (klein 2, 3, 4, 5; precache 3), the  *)
(* while loop over the parentheses (klein 5) and the for loop over the     *)
(* lines (klein 6).                                                        *)
(***************************************************************************)
LoopPatches == {"p2", "p3", "p4", "p5", "q3"}

LocateOf(p, c) ==
    CASE p = "p2" -> Locate2(c)
      [] p = "p3" -> Locate3(c)
      [] p = "p4" -> Locate4(c)
      [] p = "p5" -> Locate5(c)
      [] p = "q3" -> LocateQ3(c)

SpliceOf(p, c, indent, idx) ==
    CASE p = "p2" -> Splice2(c, indent)
      [] p = "p3" -> Splice3(c, indent)
      [] p = "p4" -> Splice4(c, indent)
      [] p = "p5" -> Splice5(c, indent, idx)
      [] p = "q3" -> SpliceQ3(c, indent)

\* the statements of a patch up to its indentation loop
BeginPatch ==
    /\ pc \in LoopPatches
    /\ \E at \in {LocateOf(pc, code)} :
           IF at.skip THEN Commit(pc, Skip(code)) /\ UNCHANGED loc
           ELSE IF at.raised THEN Commit(pc, Raise(code)) /\ UNCHANGED loc
           ELSE /\ loc' = [NoLocals EXCEPT !.patch = pc, !.pos = at.line_start]
                /\ pc' = "indent"
                /\ UNCHANGED <<script, run, src, dst, code, report, last, prev,
                               span, found, out1, client>>

\* for ch in code[line_start:]: one character, or the end of the loop
IndentStep ==
    /\ pc = "indent"
    /\ IF loc.pos < Len(code) /\ IsIndentChar(code[loc.pos + 1])
       THEN /\ loc' = [loc EXCEPT !.indent = Append(@, code[loc.pos + 1]),
                                  !.pos = @ + 1]
            /\ pc' = pc
       ELSE IF loc.patch = "p5"
       THEN /\ loc' = [loc EXCEPT !.idx = Locate5(code).last_save_lora,
                                  !.paren_count = 0]
            /\ pc' = "scan"
       ELSE loc' = loc /\ pc' = "splice"
    /\ UNCHANGED <<script, run, src, dst, code, report, last, prev, span, found, out1, client>>

\* while idx < len(code): one pass, or the end of the loop
ScanStep ==
    /\ pc = "scan"
    /\ IF loc.idx < Len(code)
       THEN LET b == ScanBody(code, loc.idx, loc.paren_count)
            IN  /\ loc' = [loc EXCEPT !.idx = b.idx, !.paren_count = b.paren_count]
                /\ pc' = IF b.stop THEN "splice" ELSE "scan"
       ELSE loc' = loc /\ pc' = "splice"
    /\ UNCHANGED <<script, run, src, dst, code, report, last, prev, span, found, out1, client>>

\* the statements of a patch after its loops
SpliceStep ==
    /\ pc = "splice"
    /\ Commit(loc.patch, SpliceOf(loc.patch, code, loc.indent, loc.idx))
    /\ UNCHANGED loc

\* lines = code.split("\n"); filtered_lines = []; skip_continuation = False
FilterInit ==
    /\ pc = "p6"
    /\ loc' = [NoLocals EXCEPT !.patch = "p6", !.lines = Split(code)]
    /\ pc' = "filter"
    /\ UNCHANGED <<script, run, src, dst, code, report, last, prev, span, found, out1, client>>

\* for line in lines: one line
FilterStep ==
    /\ pc = "filter"
    /\ loc.lines # <<>>
    /\ LET b == FilterBody(Head(loc.lines), loc.skip_continuation)
       IN  loc' = [loc EXCEPT
                     !.lines = Tail(@),
                     !.filtered_lines = IF b.keep THEN Append(@, Head(loc.lines)) ELSE @,
                     !.skip_continuation = b.skip_continuation]
    /\ UNCHANGED <<script, run, pc, src, dst, code, report, last, prev, span, found, out1, client>>

\* code = "\n".join(filtered_lines), with the print
FilterJoin ==
    /\ pc = "filter"
    /\ loc.lines = <<>>
    /\ Commit("p6", Join6(code, loc.filtered_lines))
    /\ UNCHANGED loc

InitLoops ==
    \/ \E input \in Inputs(KleinFamilies \cup {LoopFamily}, MaxLoop) :
           Start("klein", input)
    \/ \E input \in Inputs(PrecacheFamilies, MaxLoop) : Start("precache", input)

NextLoops ==
    \/ Read
    \/ KleinPatch1
    \/ PrecachePatch1
    \/ PrecachePatch2
    \/ PrecachePatch2b
    \/ BeginPatch
    \/ IndentStep
    \/ ScanStep
    \/ SpliceStep
    \/ FilterInit
    \/ FilterStep
    \/ FilterJoin
    \/ WriteDst
    \/ WritePath

\* the interpreter runs the next statement as long as there is one
SpecLoops == InitLoops /\ [][NextLoops]_vars /\ WF_vars(NextLoops)

(***************************************************************************)
(* Patch 5 alone, on inputs long enough to nest parentheses.               *)
(***************************************************************************)
InitScan == \E input \in Inputs({ScanFamily}, MaxNest) : StartAt("p5", input)

NextScan == KleinPatch5

SpecScan == InitScan /\ [][NextScan]_vars

(***************************************************************************)
(* Patch 6 alone, on inputs of whole lines.                                *)
(***************************************************************************)
InitFilter == \E ls \in BSeq(FilterFamily, MaxLines) : StartAt("p6", Join(ls))

NextFilter ==
    \/ KleinPatch6
    \/ WriteDst

SpecFilter == InitFilter /\ [][NextFilter]_vars

(***************************************************************************)
(* The scripts with the write of the output file taken apart: open(.., "w") *)
(* empties the file, the text reaches it piece by piece, and an OSError    *)
(* (a full disk, a lost mount) can leave the with-block at any point.      *)
(* out1 keeps what the output path held when the run started: nothing for  *)
(* dst, the file that was read for the in-place script.                    *)
(***************************************************************************)
StartWrite(s, input) ==
    /\ script = s
    /\ run = 1
    /\ pc = "read"
    /\ src = input
    /\ dst = NoFile
    /\ code = <<>>
    /\ report = <<>>
    /\ last = ""
    /\ prev = <<>>
    /\ span = NoSpan
    /\ found = <<>>
    /\ out1 = IF s = "klein" THEN NoFile ELSE input
    /\ loc = NoLocals
    /\ ClientIdle

\* the file at the output path becomes `text`
WriteFile(text) ==
    IF script = "klein"
    THEN dst' = text /\ src' = src
    ELSE src' = text /\ dst' = dst

\* open(dst, "w") / open(path, "w"): the file exists and is empty
OpenWrite ==
    /\ pc = "write"
    /\ WriteFile(<<>>)
    /\ pc' = "writing"
    /\ UNCHANGED <<script, run, code, report, last, prev, span, found, out1, loc, client>>

\* f.write(code): some more of the text reaches the file
WriteSome ==
    /\ pc = "writing"
    /\ \E n \in (Len(Written) + 1)..Len(code) : WriteFile(SubSeq(code, 1, n))
    /\ UNCHANGED <<script, run, pc, code, report, last, prev, span, found, out1, loc, client>>

\* an OSError leaves the with-block: the script ends with what the file holds
WriteFails ==
    /\ pc = "writing"
    /\ pc' = "crashed"
    /\ UNCHANGED <<script, run, src, dst, code, report, last, prev, span, found, out1, loc, client>>

\* the with-block ends with all of the text in the file; the klein script
\* prints its last line
CloseWrite ==
    /\ pc = "writing"
    /\ Written = code
    /\ pc' = "done"
    /\ report' = IF script = "klein" THEN Append(report, DoneMessage) ELSE report
    /\ UNCHANGED <<script, run, src, dst, code, last, prev, span, found, out1, loc, client>>

InitWrite ==
    \/ \E input \in Inputs(KleinFamilies, MaxWrite) : StartWrite("klein", input)
    \/ \E input \in Inputs(PrecacheFamilies, MaxWrite) : StartWrite("precache", input)

NextWrite ==
    \/ Read
    \/ KleinPatch1
    \/ KleinPatch2
    \/ KleinPatch3
    \/ KleinPatch4
    \/ KleinPatch5
    \/ KleinPatch6
    \/ PrecachePatch1
    \/ PrecachePatch2
    \/ PrecachePatch2b
    \/ PrecachePatch3
    \/ OpenWrite
    \/ WriteSome
    \/ WriteFails
    \/ CloseWrite

SpecWrite == InitWrite /\ [][NextWrite]_vars

(***************************************************************************)
(* The klein script alone, on files that hold the anchor of patch 1 next   *)
(* to the anchors of patch 2.                                              *)
(***************************************************************************)
EndToEndFamily ==
    { <<requires_grad_False>>, <<lora_config_anchor>>, <<add_adapter_anchor, NL>>,
      <<NL>>, <<other_text>> }

InitEndToEnd == \E input \in Inputs({EndToEndFamily}, MaxLen) : Start("klein", input)

NextEndToEnd ==
    \/ Read
    \/ KleinPatch1
    \/ KleinPatch2
    \/ KleinPatch3
    \/ KleinPatch4
    \/ KleinPatch5
    \/ KleinPatch6
    \/ WriteDst

SpecEndToEnd == InitEndToEnd /\ [][NextEndToEnd]_vars

(***************************************************************************)
(* The image build of train_flux2_full.py: run_commands runs the klein     *)
(* script on the LoRA example and then the precache script on the file the *)
(* klein script wrote.  A command that exits with an error ends the build. *)
(* While the second command runs, src is the file at its only argument and *)
(* out1 keeps what the first command wrote there.                          *)
(***************************************************************************)
BuildFamily ==
    { <<requires_grad_False>>, <<lora_config_anchor>>, <<old>>, <<old_del>>, <<NL>>,
      <<other_text>> }

InitBuild == \E input \in Inputs({BuildFamily}, MaxLen) : Start("klein", input)

\* the first command has ended with status 0: the second command starts on
\* the first command's destination file
NextCommand ==
    /\ script = "klein"
    /\ pc = "done"
    /\ script' = "precache"
    /\ pc' = "read"
    /\ src' = dst
    /\ out1' = dst
    /\ dst' = NoFile
    /\ code' = <<>>
    /\ last' = ""
    /\ prev' = <<>>
    /\ span' = NoSpan
    /\ found' = <<>>
    /\ UNCHANGED <<run, report, loc, client>>

NextBuild ==
    \/ Read
    \/ KleinPatch1
    \/ KleinPatch2
    \/ KleinPatch3
    \/ KleinPatch4
    \/ KleinPatch5
    \/ KleinPatch6
    \/ WriteDst
    \/ NextCommand
    \/ PrecachePatch1
    \/ PrecachePatch2
    \/ PrecachePatch2b
    \/ PrecachePatch3
    \/ WritePath

SpecBuild == InitBuild /\ [][NextBuild]_vars

(***************************************************************************)
(* The inference client, scripts/inference.py, from the streamed response  *)
(* on: the for loop over resp.iter_lines() and the statements after it.    *)
(* A line is its prefix (what it starts with) and, behind "data: ", a      *)
(* payload: text that json.loads rejects, or an event with its stage and,  *)
(* for "complete", its image as base64 text, one character per element.    *)
(* A bytes object is the sequence of its bytes.  pc is "loop" in the loop, *)
(* "done" after the last statement, "exit1" after sys.exit(1), "crashed"   *)
(* after an exception nobody catches.  report holds what was printed.      *)
(***************************************************************************)
B64Alphabet ==
    << "A", "B", "C", "D", "E", "F", "G", "H", "I", "J", "K", "L", "M", "N", "O", "P",
       "Q", "R", "S", "T", "U", "V", "W", "X", "Y", "Z", "a", "b", "c", "d", "e", "f",
       "g", "h", "i", "j", "k", "l", "m", "n", "o", "p", "q", "r", "s", "t", "u", "v",
       "w", "x", "y", "z", "0", "1", "2", "3", "4", "5", "6", "7", "8", "9", "+", "/" >>

IsB64(ch) == \E k \in 1..Len(B64Alphabet) : B64Alphabet[k] = ch

B64Value(ch) == (CHOOSE k \in 1..Len(B64Alphabet) : B64Alphabet[k] = ch) - 1

\* base64.b64decode(text) for a text of data characters followed by "=" signs:
\* every character carries six bits, every eight bits make a byte, and a
\* text whose last group lacks its padding raises binascii.Error
B64Decode(text) ==
    LET n == Max({ k \in 0..Len(text) : \A m \in 1..k : IsB64(text[m]) })
        pads == Len(text) - n
        v(i) == B64Value(text[i + 1])
        byte(k) ==
            LET i == (8 * k) \div 6
                off == (8 * k) % 6
            IN  CASE off = 0 -> v(i) * 4 + (v(i + 1) \div 16)
                  [] off = 2 -> (v(i) % 16) * 16 + (v(i + 1) \div 4)
                  [] off = 4 -> (v(i) % 4) * 64 + v(i + 1)
    IN  IF n % 4 = 1 \/ (n % 4 = 2 /\ pads < 2) \/ (n % 4 = 3 /\ pads < 1)
        THEN [raised |-> TRUE, bytes |-> <<>>]
        ELSE [raised |-> FALSE, bytes |-> [k \in 1..((6 * n) \div 8) |-> byte(k - 1)]]

\* a variant of the test below: `if result_image is not None`
IsNotNone(b) == b # None

\* `if result_image:` is true for a bytes object that is not empty
Truthy(b) == b # None /\ b # <<>>

Line(prefix, json, stage, image) ==
    [prefix |-> prefix, json |-> json, stage |-> stage, image |-> image]

\* the base64 texts a "complete" event carries: of no byte (with and without
\* padding signs), of "A", of "AB", and one that lacks its padding
ImageTexts ==
    { <<>>, <<"=", "=", "=", "=">>, <<"Q", "Q", "=", "=">>, <<"Q", "U", "I", "=">>,
      <<"Q", "Q">> }

\* the lines of a response: an empty line, a comment, a data line without the
\* space the client asks for, a data line that is not JSON, and the events
ClientLines ==
    { Line("", FALSE, "", <<>>),
      Line(": ", FALSE, "", <<>>),
      Line("data:", TRUE, "complete", <<"Q", "Q", "=", "=">>),
      Line("data: ", FALSE, "", <<>>),
      Line("data: ", TRUE, "generating", <<>>),
      Line("data: ", TRUE, "loading", <<>>),
      Line("data: ", TRUE, "error", <<>>) }
    \cup { Line("data: ", TRUE, "complete", t) : t \in ImageTexts }

InitClient ==
    \E r \in BSeq(ClientLines, MaxEvents) :
        /\ script = "inference"
        /\ run = 1
        /\ pc = "loop"
        /\ resp = r
        /\ nread = 0
        /\ result_image = None
        /\ output = NoOutput
        /\ report = <<>>
        /\ src = NoFile
        /\ dst = NoFile
        /\ code = <<>>
        /\ last = ""
        /\ prev = <<>>
        /\ span = NoSpan
        /\ found = <<>>
        /\ out1 = NoFile
        /\ loc = NoLocals

\* what the patch scripts keep
patcher == <<script, run, src, dst, code, last, prev, span, found, out1, loc>>

\* the for loop hands out the next line
Taken(line) ==
    /\ script = "inference"
    /\ pc = "loop"
    /\ nread < Len(resp)
    /\ line = resp[nread + 1]
    /\ nread' = nread + 1
    /\ UNCHANGED <<patcher, resp, output>>

\* if not line or not line.startswith("data: "): continue
SkipLine ==
    \E line \in ClientLines :
        /\ Taken(line)
        /\ line.prefix # "data: "
        /\ UNCHANGED <<pc, result_image, report>>

\* json.loads(line[6:]) raises
NotJson ==
    \E line \in ClientLines :
        /\ Taken(line)
        /\ line.prefix = "data: " /\ ~line.json
        /\ pc' = "crashed"
        /\ UNCHANGED <<result_image, report>>

\* stage "generating": the progress line
Generating ==
    \E line \in ClientLines :
        /\ Taken(line)
        /\ line.prefix = "data: " /\ line.json /\ line.stage = "generating"
        /\ report' = Append(report, "  Step n/total (pct%)")
        /\ UNCHANGED <<pc, result_image>>

\* stage "complete": print, then decode the image into result_image
Complete ==
    \E line \in ClientLines :
        /\ Taken(line)
        /\ line.prefix = "data: " /\ line.json /\ line.stage = "complete"
        /\ report' = Append(report, "  Done!")
        /\ \E d \in {B64Decode(line.image)} :
               IF d.raised
               THEN pc' = "crashed" /\ result_image' = result_image
               ELSE pc' = pc /\ result_image' = d.bytes

\* stage "error": print to stderr and sys.exit(1)
ErrorEvent ==
    \E line \in ClientLines :
        /\ Taken(line)
        /\ line.prefix = "data: " /\ line.json /\ line.stage = "error"
        /\ report' = Append(report, "  Error: message")
        /\ pc' = "exit1"
        /\ UNCHANGED result_image

\* any other stage: no branch of the if statement is taken
OtherStage ==
    \E line \in ClientLines :
        /\ Taken(line)
        /\ line.prefix = "data: " /\ line.json
        /\ line.stage \notin {"generating", "complete", "error"}
        /\ UNCHANGED <<pc, result_image, report>>

\* after the loop, if result_image: write the file
SaveImage ==
    /\ script = "inference"
    /\ pc = "loop"
    /\ nread = Len(resp)
    /\ Truthy(result_image)
    /\ output' = result_image
    /\ report' = Append(report, "Saved routed image to output")
    /\ pc' = "done"
    /\ UNCHANGED <<patcher, resp, nread, result_image>>

\* after the loop, else: print to stderr and sys.exit(1)
NoImage ==
    /\ script = "inference"
    /\ pc = "loop"
    /\ nread = Len(resp)
    /\ ~Truthy(result_image)
    /\ report' = Append(report, "No image received from endpoint")
    /\ pc' = "exit1"
    /\ UNCHANGED <<patcher, resp, nread, result_image, output>>

NextClient ==
    \/ SkipLine
    \/ NotJson
    \/ Generating
    \/ Complete
    \/ ErrorEvent
    \/ OtherStage
    \/ SaveImage
    \/ NoImage

SpecClient == InitClient /\ [][NextClient]_vars

(***************************************************************************)
(* Vocabulary of the properties.  These definitions read buffers           *)
(* directly; none of them uses a patch of the scripts.                     *)
(***************************************************************************)
Count(s, tok) == Cardinality({ i \in 1..Len(s) : s[i] = tok })

IsPrefix(a, b) == Len(a) <= Len(b) /\ SubSeq(b, 1, Len(a)) = a

IsSuffix(a, b) == Len(a) <= Len(b) /\ SubSeq(b, Len(b) - Len(a) + 1, Len(b)) = a

\* positions (0-based) where B holds a whole match of the regular expression
CacheMatches(B) ==
    { i \in 0..Len(B) - 1 :
        /\ B[i + 1] = cache_if
        /\ \E j \in { n \in 1..Len(B) : B[n] = cache_embeds } :
              \E k \in { n \in 1..Len(B) : B[n] = cache_ids } :
                  /\ i + 2 < j /\ j + 1 < k
                  /\ \A n \in (i + 2)..(j - 1) : IsSpace(B[n])
                  /\ \A n \in (j + 1)..(k - 1) : IsSpace(B[n]) }

\* one line of B holds both tokens that start the deletion of patch 6
UpcastLine(B) ==
    \E i \in { n \in 1..Len(B) : Has(B[n], upcast_token) } :
        \E j \in { n \in 1..Len(B) : Has(B[n], add_argument_token) } :
            \A n \in (IF i < j THEN i ELSE j)..(IF i < j THEN j ELSE i) : B[n] # NL

\* the literal a patch looks for first
AnchorOf(p) ==
    CASE p = "p1" -> requires_grad_False
      [] p = "p2" -> lora_config_anchor
      [] p = "p3" -> old_save_hook_signature
      [] p = "p4" -> old_load_hook_signature
      [] p = "p5" -> save_lora_anchor
      [] p = "q1" -> old
      [] p = "q2" -> old_cleanup
      [] p = "q2b" -> old_del

\* the anchor of patch p occurs in buffer B
AnchorOccurs(p, B) ==
    CASE p = "p6" -> UpcastLine(B)
      [] p = "q3" -> CacheMatches(B) # {}
      [] OTHER -> Count(B, AnchorOf(p)) > 0

\* how often it occurs
Occurrences(p, B) ==
    IF p = "q3" THEN Cardinality(CacheMatches(B)) ELSE Count(B, AnchorOf(p))

\* the patch that ran last ran to its end and took its rewriting branch
Applied == last # "" /\ span.found /\ ~span.raised

\* the lines of a text; a text that ends in a line break has no line after it
LinesOf(text) ==
    IF text # <<>> /\ text[Len(text)] = NL
    THEN Split(SubSeq(text, 1, Len(text) - 1))
    ELSE Split(text)

\* the leading spaces and tabs of the line of B that holds position i
IndentAt(B, i) ==
    LET starts == { n \in 0..i : \A m \in (n + 1)..i : B[m] # NL }
        ls == Min(starts)
        stops == { n \in ls..Len(B) : n = Len(B) \/ ~IsIndentChar(B[n + 1]) }
    IN  SubSeq(B, ls + 1, Min(stops))

\* the printed lines that report a patch
PatchLines ==
    LET IsPatchLine(m) == m # DoneMessage
    IN  SelectSeq(report, IsPatchLine)

(***************************************************************************)
(* C1.  A patch whose anchor does not occur in the buffer it is given      *)
(* leaves that buffer unchanged, for every patch of both scripts.          *)
(***************************************************************************)
C1_NoAnchorNoChange ==
    (last # "" /\ ~AnchorOccurs(last, prev)) => (code = prev /\ ~span.raised)

\* patch 6 has split and joined a buffer of several lines that holds no anchor
C1_Witness ==
    /\ last = "p6"
    /\ ~AnchorOccurs("p6", prev)
    /\ Count(prev, NL) >= 2
    /\ code = prev

(***************************************************************************)
(* C2.  A finished run has printed exactly one line per patch, in patch    *)
(* order, and the line of a patch says Applied exactly when the patch      *)
(* found its span, and Skipped otherwise.                                  *)
(***************************************************************************)
C2_OneLinePerPatch ==
    pc = "done" =>
        /\ Len(PatchLines) = Len(Order(script))
        /\ \A i \in 1..Len(PatchLines) :
              LET p == Order(script)[i]
              IN  IF found[i]
                  THEN PatchLines[i] = (IF script = "klein" THEN KleinMessage[p]
                                        ELSE PrecacheApplied[p])
                  ELSE script = "precache" /\ PatchLines[i] = PrecacheWarning[p]

(***************************************************************************)
(* C3.  An anchor that cannot be found never raises an error that aborts   *)
(* the run.                                                                *)
(***************************************************************************)
C3_NeverAborts == pc # "crashed"

(***************************************************************************)
(* C4.  A second run of a script on the output of its first run either     *)
(* writes the same buffer again or skips every patch.                      *)
(***************************************************************************)
C4_RerunSafe ==
    (run = 2 /\ pc = "done") =>
        \/ Written = out1
        \/ \A i \in 1..Len(found) : ~found[i]

(***************************************************************************)
(* C6.  As claimed: when the anchor occurs more than once, only its first  *)
(* occurrence is rewritten and the later ones stay as they are (patches 1  *)
(* and 5 of the klein script, 1, 2, 2b and 3 of the precache script).      *)
(***************************************************************************)
C6Replacing == {"p1", "q1", "q2", "q2b"}

C6ReplacementOf(p) ==
    CASE p = "p1" -> <<requires_grad_True>>
      [] p = "q1" -> <<new>>
      [] p = "q2" -> new_cleanup
      [] p = "q2b" -> new_del

\* the position of the last occurrence of the anchor of patch 5
LastCall(B) == Max({ i \in 0..Len(B) - 1 : B[i + 1] = save_lora_anchor })

C7_ReplacementIndented ==
    (Applied /\ last \in {"q2", "q2b", "q3", "p3", "p4", "p5"}) =>
        \A k \in 2..Len(LinesOf(span.repl)) :
            \/ LinesOf(span.repl)[k] = <<>>
            \/ IsPrefix(IndentAt(prev, span.start), LinesOf(span.repl)[k])

(***************************************************************************)
(* C8.  After a patch that splices (klein 2, 3, 4, 5; precache 3), the     *)
(* buffer is the old buffer with the one located span [start, end)         *)
(* replaced: the text before the span, the replacement, the text after     *)
(* the span, nothing else kept twice or lost.                              *)
(***************************************************************************)
C8_OnlySpanRewritten ==
    (Applied /\ last \in {"p2", "p3", "p4", "p5", "q3"}) =>
        \E i, j \in 0..Len(prev) :
            /\ i <= j
            /\ code = SubSeq(prev, 1, i) \o span.repl \o SubSeq(prev, j + 1, Len(prev))

(***************************************************************************)
(* C5.  Given the five lines                                               *)
(*     parser.add_argument(                                                *)
(*         "--upcast_before_saving",                                       *)
(*         action="store_true",                                            *)
(*     )                                                                   *)
(*     next_line_kept = True                                               *)
(* patch 6 removes the four lines of the declaration and keeps the fifth.  *)
(***************************************************************************)
FiveLines ==
    Join(<< <<parser_add_argument>>,
            Spaces(4) \o <<upcast_flag, COMMA>>,
            Spaces(4) \o <<store_true, COMMA>>,
            <<RP>>,
            <<next_line_kept>> >>)

C5_DeclarationRemoved ==
    (last = "p6" /\ prev = FiveLines) => code = <<next_line_kept>>

(***************************************************************************)
(* C9.  The scan of patch 5 starts at the last save_lora_weights( and      *)
(* stops at the ")" that closes that call: the first position at which as  *)
(* many parentheses have closed as have opened since the anchor.  When no  *)
(* such position exists the scan runs to the end of the buffer.            *)
(***************************************************************************)
\* positions from a on at which the parentheses opened since a are all closed
Balanced(B, a) ==
    { n \in a..Len(B) - 1 :
        Cardinality({ m \in a..n : B[m + 1] \in Opens })
          = Cardinality({ m \in a..n : B[m + 1] = RP }) }

C9_ScanStopsAtMatchingClose ==
    (last = "p5" /\ span.close >= 0) =>
        IF Balanced(prev, LastCall(prev)) = {}
        THEN span.close = Len(prev)
        ELSE /\ span.close = Min(Balanced(prev, LastCall(prev)))
             /\ prev[span.close + 1] = RP

\* the call held a nested call: a ")" stands between the anchor and the stop
C9_Witness ==
    /\ Applied
    /\ last = "p5"
    /\ \E n \in LastCall(prev)..span.close - 1 : prev[n + 1] = RP
    /\ span.end > span.close

(***************************************************************************)
(* C10.  Every run ends: it reaches the end of the script, or a            *)
(* ValueError ends it.  No loop of the scripts runs forever.               *)
(***************************************************************************)
C10_Terminates == <>(pc \in {"done", "crashed"})

\* a run has ended after the indentation loop collected a tab, the
\* parenthesis scan stopped at a ")" and the line loop read the lines of the
\* rewritten buffer
C10_Witness ==
    /\ pc = "done"
    /\ script = "klein"
    /\ found[5]
    /\ \E n \in 1..Len(code) - 1 : code[n] = TAB /\ code[n + 1] = main_process_anchor
    /\ loc.patch = "p6"
    /\ Len(loc.filtered_lines) >= 3

\* the loops taken turn by turn leave what the patches taken whole leave
LoopsAgree ==
    (last # "" /\ pc \notin {"indent", "scan", "splice", "filter"}) =>
        LET r == IF script = "klein" THEN KleinPatch(last, prev)
                 ELSE PrecachePatch(last, prev)
        IN  span = SpanOf(r) /\ (~r.raised => code = r.code)

(***************************************************************************)
(* C11.  When a run has ended, by reaching its end or by an error, the     *)
(* file at the output path holds all of what it held before the run or     *)
(* all of the final buffer: never a part of it, never nothing.  This       *)
(* covers the script that writes the file it read.                         *)
(***************************************************************************)
C11_WriteAllOrNothing ==
    pc \in {"done", "crashed"} => (Written = out1 \/ Written = code)

(***************************************************************************)
(* C12.  A run of the klein script on a file that holds                    *)
(* transformer.requires_grad_(False) ends with an output file that holds   *)
(* transformer.requires_grad_(True) and no transformer.requires_grad_(False) *)
(* any more, and has printed the line of patch 1 once.                     *)
(***************************************************************************)
C12_RequiresGradRewritten ==
    (script = "klein" /\ pc \in {"done", "crashed"}
        /\ Count(src, requires_grad_False) > 0) =>
        /\ pc = "done"
        /\ Count(dst, requires_grad_True) > 0
        /\ Count(dst, requires_grad_False) = 0
        /\ Count(report, KleinMessage["p1"]) = 1

(***************************************************************************)
(* C13.  Patch 6 drops the line that starts the declaration and the lines  *)
(* after it that end in "," or ")"; the first line after the start that    *)
(* ends in neither is kept, and so is every line after a dropped line that *)
(* ends in ")".  After a declaration written on one line the next line is  *)
(* kept.                                                                   *)
(***************************************************************************)
\* the lines the claim keeps; in_region: the line before was dropped and did
\* not end in ")"
RECURSIVE KeptAsClaimed(_, _)
KeptAsClaimed(lines, in_region) ==
    IF lines = <<>> THEN <<>>
    ELSE IF in_region
    THEN IF EndsWithComma(Head(lines)) THEN KeptAsClaimed(Tail(lines), TRUE)
         ELSE IF EndsWithParen(Head(lines)) THEN KeptAsClaimed(Tail(lines), FALSE)
         ELSE <<Head(lines)>> \o KeptAsClaimed(Tail(lines), FALSE)
    ELSE IF StartsDeletion(Head(lines))
    THEN KeptAsClaimed(Tail(lines), ~EndsWithParen(Head(lines)))
    ELSE <<Head(lines)>> \o KeptAsClaimed(Tail(lines), FALSE)

C13_RegionEndsAtFirstOtherLine ==
    last = "p6" => code = Join(KeptAsClaimed(Split(prev), FALSE))

(***************************************************************************)
(* C14.  Ordering.  In each script the file is read once, before the first *)
(* patch; the patches run in the order of the source, each on the buffer   *)
(* the patch before it left; the file is written once, after the last      *)
(* patch, and no file changes at any other statement.  In the image build  *)
(* the precache script starts only once the klein script has written its   *)
(* destination, and the file it reads and writes is that destination.      *)
(***************************************************************************)
\* the place of statement p in script s
Position(s, p) ==
    CASE p = "read" -> 0
      [] p = "write" -> Len(Order(s)) + 1
      [] p \in {"done", "crashed"} -> Len(Order(s)) + 2
      [] OTHER -> CHOOSE k \in 1..Len(Order(s)) : Order(s)[k] = p

IsPatch(s, p) == \E k \in 1..Len(Order(s)) : Order(s)[k] = p

ResultOf(s, p, c) == IF s = "klein" THEN KleinPatch(p, c) ELSE PrecachePatch(p, c)

C14_StatementInOrder ==
    /\ script' = script
    /\ pc = "read" => (code' = src /\ pc' = Order(script)[1])
    /\ IsPatch(script, pc) =>
          /\ prev' = code
          /\ last' = pc
          /\ \/ pc' = "crashed" /\ code' = code
             \/ /\ Position(script, pc') = Position(script, pc) + 1
                /\ code' = ResultOf(script, pc, code).code
    /\ pc = "write" => (pc' = "done" /\ Written' = code /\ code' = code)
    /\ pc # "write" => (src' = src /\ dst' = dst)
    /\ pc \notin {"read", "write"} /\ ~IsPatch(script, pc) => FALSE

C14_CommandInOrder ==
    /\ script = "klein" /\ script' = "precache"
    /\ pc = "done" /\ pc' = "read"
    /\ dst = code
    /\ src' = dst

C14_Ordering == [][C14_StatementInOrder \/ C14_CommandInOrder]_vars

\* the build has ended: the klein script rewrote requires_grad_, the precache
\* script then changed the file the klein script had written
C14_Witness ==
    /\ script = "precache"
    /\ pc = "done"
    /\ Count(out1, requires_grad_True) > 0
    /\ Count(out1, old_del) > 0
    /\ src # out1
    /\ src = code

(***************************************************************************)
(* C15.  The region a klein patch with a start anchor and an end anchor    *)
(* (2, 3, 4, 5) splices out is a span [start, end) with start <= end, so   *)
(* the text before the span and the text after it do not overlap and the   *)
(* new buffer holds no part of the old one twice.                          *)
(***************************************************************************)
C15_SpanWellFormed ==
    (Applied /\ last \in {"p2", "p3", "p4", "p5"}) =>
        /\ 0 <= span.start
        /\ span.start <= span.end
        /\ span.end <= Len(prev)
        /\ Len(code) = span.start + Len(span.repl) + (Len(prev) - span.end)

(***************************************************************************)
(* C16.  The inference client, once it has ended.  The stream ended if     *)
(* every line was taken and no event that was taken was an "error" event   *)
(* or one the client could not decode.  As stated: the output file is      *)
(* written exactly if the stream ended and some "complete" event that was  *)
(* taken carried an image of at least one byte; the bytes written are      *)
(* those of the last "complete" event; an "error" event that was taken,    *)
(* also after a "complete" event, ends the client with sys.exit(1) and     *)
(* without the file.                                                       *)
(***************************************************************************)
IsEvent(l) == l.prefix = "data: "

IsCompleteEvent(l) == IsEvent(l) /\ l.json /\ l.stage = "complete"

IsErrorEvent(l) == IsEvent(l) /\ l.json /\ l.stage = "error"

Undecodable(l) ==
    IsEvent(l) /\ (~l.json \/ (l.stage = "complete" /\ B64Decode(l.image).raised))

LinesRead == SubSeq(resp, 1, nread)

CompletesRead == SelectSeq(LinesRead, IsCompleteEvent)

ErrorRead == \E k \in 1..nread : IsErrorEvent(resp[k])

StreamEnded ==
    /\ nread = Len(resp)
    /\ \A k \in 1..nread : ~IsErrorEvent(resp[k]) /\ ~Undecodable(resp[k])

ImageOf(l) == B64Decode(l.image).bytes

LastComplete == CompletesRead[Len(CompletesRead)]

ClientEnded == script = "inference" /\ pc \in {"done", "exit1", "crashed"}

FileWritten == output # NoOutput

C16_AnyImageSaved ==
    ClientEnded =>
        /\ FileWritten <=>
               /\ StreamEnded
               /\ \E k \in 1..Len(CompletesRead) : ImageOf(CompletesRead[k]) # <<>>
        /\ FileWritten => (pc = "done" /\ output = ImageOf(LastComplete))
        /\ ErrorRead => (pc = "exit1" /\ ~FileWritten)

(***************************************************************************)
(* C16, amended.  The output file is written exactly if the stream ended   *)
(* and the last "complete" event that was taken carried an image of at     *)
(* least one byte: a later "complete" event with an empty image takes the  *)
(* image of an earlier one away.  The rest is as stated.                   *)
(***************************************************************************)
C16_LastImageSaved ==
    ClientEnded =>
        /\ FileWritten <=>
               /\ StreamEnded
               /\ CompletesRead # <<>>
               /\ ImageOf(LastComplete) # <<>>
        /\ FileWritten => (pc = "done" /\ output = ImageOf(LastComplete))
        /\ ~FileWritten => pc \in {"exit1", "crashed"}
        /\ ErrorRead => (pc = "exit1" /\ ~FileWritten)

\* two "complete" events were taken, of "A" and then of "AB", and the file
\* holds the two bytes of the second
C16_Witness ==
    /\ script = "inference"
    /\ pc = "done"
    /\ Len(CompletesRead) = 2
    /\ CompletesRead[1].image = <<"Q", "Q", "=", "=">>
    /\ result_image = <<65, 66>>
    /\ output = <<65, 66>>

====
